---- MODULE Spec2Model ----
(***************************************************************************)
(* Model of the Item Index Engine of the task panel: TaskProvider          *)
(* (src/src/model.ts, second class definition, lines 509-1464) and the     *)
(* file watcher of src/src/extension.ts.                                   *)
(*                                                                         *)
(* Time is local wall-clock time in whole seconds (no timezone, no         *)
(* daylight saving): an instant is the pair <<day since 1970-01-01, second *)
(* of that day>>, ordered lexicographically.  A file's content is         *)
(* abstracted to what the code looks at: the hashtags it contains, the     *)
(* first substring matching the timestamp regex, the search fragments it   *)
(* contains and the shape of its first non-blank line.                     *)
(***************************************************************************)
EXTENDS Integers, Sequences, FiniteSets, TLC

(***************************************************************************)
(* Calendar arithmetic (what the JavaScript Date object computes).         *)
(***************************************************************************)
\* Days since 1970-01-01 of the civil date y-m-d; a day past the end of the
\* month rolls over into the next month, as Date does.
DaysFromCivil(y, m, d) ==
    LET yy  == IF m <= 2 THEN y - 1 ELSE y
        era == yy \div 400
        yoe == yy - era * 400
        mp  == (m + 9) % 12
        doy == (153 * mp + 2) \div 5 + d - 1
        doe == yoe * 365 + yoe \div 4 - yoe \div 100 + doy
    IN  era * 146097 + doe - 719468

\* new Date(y, m-1, d, h, mi, s)
MakeInstant(y, m, d, h, mi, s) ==
    <<DaysFromCivil(y, m, d), h * 3600 + mi * 60 + s>>

\* The calendar day of an instant: new Date(y, m, d) of its fields.
DayOf(t) == t[1]

\* a.getTime() < b.getTime() and a.getTime() <= b.getTime()
Before(a, b) == a[1] < b[1] \/ (a[1] = b[1] /\ a[2] < b[2])

NotAfter(a, b) == a = b \/ Before(a, b)

\* Date.prototype.getFullYear
GetFullYear(t) ==
    LET z   == DayOf(t) + 719468
        era == z \div 146097
        doe == z - era * 146097
        yoe == (doe - doe \div 1460 + doe \div 36524 - doe \div 146096) \div 365
        doy == doe - (365 * yoe + yoe \div 4 - yoe \div 100)
        mp  == (5 * doy + 2) \div 153
        m   == IF mp < 10 THEN mp + 3 ELSE mp - 9
    IN  yoe + era * 400 + (IF m <= 2 THEN 1 ELSE 0)

(***************************************************************************)
(* Timestamp tokens.  A token is a substring that matches timestampRegex,  *)
(* so its fields are two-digit numbers and a year 20YY; time is <<>> for   *)
(* the date-only grammar and <<hh, mm, ss, "AM"|"PM">> for the long one.   *)
(***************************************************************************)
NoToken == [none |-> TRUE]

Tok(mo, dd, yyyy, tm) == [mo |-> mo, dd |-> dd, yyyy |-> yyyy, tm |-> tm]

\* The placeholder string scanFile stores for a file without a token.
PlaceholderToken == Tok(1, 1, 2050, <<12, 0, 0, "PM">>)

\* new Date(2050, 0, 1, 12, 0, 0): the instant given to items without a
\* parsable timestamp.
SentinelInstant == MakeInstant(2050, 1, 1, 12, 0, 0)

NoDate == <<>>

\* A date parser that adds twelve hours for PM without wrapping the hour 12.
parseTimestamp_noWrap(tok) ==
    LET hh == IF tok.tm = <<>> THEN 12 ELSE tok.tm[1]
        mi == IF tok.tm = <<>> THEN 0 ELSE tok.tm[2]
        ss == IF tok.tm = <<>> THEN 0 ELSE tok.tm[3]
        ap == IF tok.tm = <<>> THEN "PM" ELSE tok.tm[4]
        h24 == IF ap = "PM" /\ hh < 12 THEN hh + 12 ELSE hh
    IN  IF /\ tok.mo \in 1..12
           /\ tok.dd \in 1..31
           /\ hh \in 0..12
           /\ mi \in 0..59
           /\ ss \in 0..59
        THEN MakeInstant(tok.yyyy, tok.mo, tok.dd, h24, mi, ss)
        ELSE NoDate

\* parseTimestamp: strip the brackets, split date and time, default the time
\* to 12:00:00 PM, and hand "MM/DD/YYYY HH:MM:SS AM|PM" to new Date(string).
\* The engine's legacy date parser accepts month 1..12, day 1..31 (rolling a
\* day past the end of the month over), hour 0..12 with a meridiem, minute
\* and second 0..59; anything else is an Invalid Date, returned as null.
parseTimestamp(tok) ==
    LET hh == IF tok.tm = <<>> THEN 12 ELSE tok.tm[1]
        mi == IF tok.tm = <<>> THEN 0 ELSE tok.tm[2]
        ss == IF tok.tm = <<>> THEN 0 ELSE tok.tm[3]
        ap == IF tok.tm = <<>> THEN "PM" ELSE tok.tm[4]
        h24 == (hh % 12) + (IF ap = "PM" THEN 12 ELSE 0)
    IN  IF /\ tok.mo \in 1..12
           /\ tok.dd \in 1..31
           /\ hh \in 0..12
           /\ mi \in 0..59
           /\ ss \in 0..59
        THEN MakeInstant(tok.yyyy, tok.mo, tok.dd, h24, mi, ss)
        ELSE NoDate

(***************************************************************************)
(* The timestamp codec on text: parseTimestamp and formatTimestamp of      *)
(* src/src/utils.ts.  A text is a sequence of one-character strings.       *)
(***************************************************************************)
Digit(k) ==
    CASE k = 0 -> "0" [] k = 1 -> "1" [] k = 2 -> "2" [] k = 3 -> "3"
      [] k = 4 -> "4" [] k = 5 -> "5" [] k = 6 -> "6" [] k = 7 -> "7"
      [] k = 8 -> "8" [] k = 9 -> "9"

DigitValue(c) ==
    CASE c = "0" -> 0 [] c = "1" -> 1 [] c = "2" -> 2 [] c = "3" -> 3
      [] c = "4" -> 4 [] c = "5" -> 5 [] c = "6" -> 6 [] c = "7" -> 7
      [] c = "8" -> 8 [] c = "9" -> 9

\* The number a run of digits denotes to the date parser.
RECURSIVE ToNumber(_)
ToNumber(cs) ==
    IF cs = <<>> THEN 0
    ELSE ToNumber(SubSeq(cs, 1, Len(cs) - 1)) * 10 + DigitValue(cs[Len(cs)])

\* String(n).padStart(2, '0') for 0 <= n <= 99.
padStart2(n) == <<Digit(n \div 10), Digit(n % 10)>>

\* String(year) for a four-digit year.
String4(y) ==
    <<Digit(y \div 1000), Digit((y \div 100) % 10), Digit((y \div 10) % 10),
      Digit(y % 10)>>

\* String.prototype.split(sep) for a one-character separator: the pieces
\* between the separators, a single empty piece for the empty text.
RECURSIVE split(_, _)
split(cs, sep) ==
    IF \A i \in 1..Len(cs) : cs[i] # sep THEN <<cs>>
    ELSE LET i == CHOOSE k \in 1..Len(cs) :
                      /\ cs[k] = sep
                      /\ \A j \in 1..(k - 1) : cs[j] # sep
         IN  <<SubSeq(cs, 1, i - 1)>> \o split(SubSeq(cs, i + 1, Len(cs)), sep)

\* timestampString.replace(/[\[\]]/g, '')
stripBrackets(cs) ==
    LET keep(c) == c \notin {"[", "]"}
    IN  SelectSeq(cs, keep)

\* new Date(`${month}/${day}/${year} ${timePart} ${ampmPart}`) for runs of
\* digits: the fields go to the date parser as numbers.
newDate(month, day, year, timePart, ampmPart) ==
    LET hms == split(timePart, ":")
    IN  parseTimestamp(
            Tok(ToNumber(month), ToNumber(day), ToNumber(year),
                <<ToNumber(hms[1]), ToNumber(hms[2]), ToNumber(hms[3]),
                  IF ampmPart = <<"P", "M">> THEN "PM" ELSE "AM">>))

\* parseTimestamp of utils.ts on a text: the brackets are removed wherever
\* they are, the text is split at blanks and the date at slashes, and the
\* only checks before new Date are three date fields and a year of four
\* characters.
parseTimestampText(cs) ==
    LET parts    == split(stripBrackets(cs), " ")
        datePart == parts[1]
        long     == Len(parts) = 3
        timePart == IF long THEN parts[2]
                    ELSE <<"1", "2", ":", "0", "0", ":", "0", "0">>
        ampmPart == IF long THEN parts[3] ELSE <<"P", "M">>
        comps    == split(datePart, "/")
    IN  IF Len(comps) # 3 \/ Len(comps[3]) # 4 THEN NoDate
        ELSE newDate(comps[1], comps[2], comps[3], timePart, ampmPart)

\* The civil month (1..12) and day of the month of an instant:
\* getMonth() + 1 and getDate().
civil(t) ==
    LET z   == DayOf(t) + 719468
        era == z \div 146097
        doe == z - era * 146097
        yoe == (doe - doe \div 1460 + doe \div 36524 - doe \div 146096) \div 365
        doy == doe - (365 * yoe + yoe \div 4 - yoe \div 100)
        mp  == (5 * doy + 2) \div 153
    IN  [month |-> IF mp < 10 THEN mp + 3 ELSE mp - 9,
         day   |-> doy - (153 * mp + 2) \div 5 + 1]

\* A formatTimestamp whose meridiem turns to PM only after the noon hour.
formatTimestamp_lateNoon(date, includeTime) ==
    LET hours   == date[2] \div 3600
        hours12 == IF hours % 12 = 0 THEN 12 ELSE hours % 12
        ampm    == IF hours > 12 THEN <<"P", "M">> ELSE <<"A", "M">>
        ymd     == padStart2(civil(date).month) \o <<"/">>
                   \o padStart2(civil(date).day) \o <<"/">>
                   \o String4(GetFullYear(date))
    IN  IF ~includeTime THEN <<"[">> \o ymd \o <<"]">>
        ELSE <<"[">> \o ymd \o <<" ">> \o padStart2(hours12) \o <<":">>
             \o padStart2((date[2] \div 60) % 60) \o <<":">>
             \o padStart2(date[2] % 60) \o <<" ">> \o ampm \o <<"]">>

\* formatTimestamp of utils.ts.
formatTimestamp(date, includeTime) ==
    LET hours   == date[2] \div 3600
        hours12 == IF hours % 12 = 0 THEN 12 ELSE hours % 12
        ampm    == IF hours >= 12 THEN <<"P", "M">> ELSE <<"A", "M">>
        ymd     == padStart2(civil(date).month) \o <<"/">>
                   \o padStart2(civil(date).day) \o <<"/">>
                   \o String4(GetFullYear(date))
    IN  IF ~includeTime THEN <<"[">> \o ymd \o <<"]">>
        ELSE <<"[">> \o ymd \o <<" ">> \o padStart2(hours12) \o <<":">>
             \o padStart2((date[2] \div 60) % 60) \o <<":">>
             \o padStart2(date[2] % 60) \o <<" ">> \o ampm \o <<"]">>

\* isLongFormat of addTimeToTask: the text has a blank and a colon.
isLongFormat(cs) ==
    LET clean == stripBrackets(cs)
    IN  /\ \E i \in 1..Len(clean) : clean[i] = " "
        /\ \E i \in 1..Len(clean) : clean[i] = ":"

(***************************************************************************)
(* The workspace: markdown files in one folder, and what they contain.     *)
(***************************************************************************)
Paths == {"0001_plan.md", "fix-login-bug.md"}

\* path.basename(filePath)
FileName(p) == p

\* path.basename(filePath, '.md').replace(/^[\d_]+/, '')
CleanFileName(p) == IF p = "0001_plan.md" THEN "plan" ELSE "fix-login-bug"

\* String.prototype.toLowerCase on the search texts the model uses.
ToLowerCase(q) == IF q = "Bug" THEN "bug" ELSE q

\* String.prototype.toUpperCase on the filter names that reach the title.
ToUpperCase(w) ==
    CASE w = "p1" -> "P1"
      [] w = "p2" -> "P2"
      [] w = "p3" -> "P3"
      [] w = "Due Soon" -> "DUE SOON"
      [] w = "Overdue" -> "OVERDUE"
      [] w = "Search" -> "SEARCH"
      [] OTHER -> w

\* The lower-case fragments a file name contains (fileName.toLowerCase()
\* .includes(q)), for the search texts of the model.
NameFragments(p) == IF p = "fix-login-bug.md" THEN {"bug"} ELSE {}

\* A file content: tags = the hashtags it contains, tok = the first match
\* of timestampRegex (or NoToken), frags = the lower-case search fragments
\* it contains, lines = the number of non-blank lines, lead = the first
\* character of the first non-blank line, text = that line cleaned of
\* leading hashes and task hashtags.
Content(tags, tok, frags, lines, lead, text) ==
    [tags |-> tags, tok |-> tok, frags |-> frags, lines |-> lines,
     lead |-> lead, text |-> text]

cYesterday == Content({"#task"}, Tok(9, 26, 2025, <<>>), {}, 1, "#", "")

cToday == Content({"#task", "#p2"}, Tok(9, 27, 2025, <<>>), {"bug"}, 2, "F",
                  "Fix the bug")

cTomorrowDone == Content({"#task", "#done"}, Tok(9, 28, 2025, <<>>), {}, 1,
                         "[", "")

cPlus3 == Content({"#task", "#p2", "#p3"},
                  Tok(9, 30, 2025, <<5, 0, 0, "PM">>), {}, 1, "#", "")

cPlus4 == Content({"#task", "#p3"}, Tok(10, 1, 2025, <<>>), {}, 2, "#",
                  "Plan the release")

cNoTimestamp == Content({"#task"}, NoToken, {"bug"}, 2, "B", "Bug triage")

cYear2060 == Content({"#task"}, Tok(6, 15, 2060, <<>>), {}, 1, "#", "")

cBadMonth == Content({"#task", "#p3"}, Tok(13, 45, 2025, <<>>), {}, 1, "#",
                     "")

cTodo == Content({"#todo"}, Tok(9, 28, 2025, <<>>), {}, 2, "#", "Buy milk")

cPlain == Content({}, NoToken, {}, 1, "J", "Just a note")

\* '#task #p1 #p2 [09/28/2025]' on one line.
cP1AndP2 == Content({"#task", "#p1", "#p2"}, Tok(9, 28, 2025, <<>>), {}, 1,
                    "#", "")

\* A first line of 60 characters, the timestamp on the second line.
cLongLine ==
    Content({"#task"}, Tok(9, 28, 2025, <<>>), {}, 2, "R",
            "Review the quarterly report with the team lead before Friday")

\* A completed item without a timestamp.
cDoneNoDate ==
    Content({"#task", "#done"}, NoToken, {}, 2, "A", "Archive the notes")

Contents ==
    {cYesterday, cToday, cTomorrowDone, cPlus3, cPlus4, cNoTimestamp,
     cYear2060, cBadMonth, cTodo, cPlain, cP1AndP2, cLongLine, cDoneNoDate}

\* The instants at which the model evaluates "now": noon and 6 PM of
\* 09/27/2025.
Clock ==
    {MakeInstant(2025, 9, 27, 12, 0, 0), MakeInstant(2025, 9, 27, 18, 0, 0)}

(***************************************************************************)
(* State of the TaskProvider and of its environment.                       *)
(***************************************************************************)
VARIABLES
    files,                  \* path -> content on disk
    listing,                \* the order in which readdir lists the folder
    now,                    \* what new Date() returns
    primaryHashtag,         \* task-manager.primaryHashtag (cached)
    currentFilter,          \* 'All' | 'Due Soon' | 'Overdue' | 'Search'
    currentPriorityFilter,  \* 'all' | 'p1' | 'p2' | 'p3'
    currentSearchQuery,     \* '' when no search is active
    completionFilter,       \* 'all' | 'completed' | 'not-completed'
    isScanning,             \* the scanning flag read by getChildren
    title,                  \* treeView.title
    taskFileData,           \* the item index: sequence of TaskFile
    taskFiles,              \* the display list: sequence of TaskFileItem
    scannedFiles,           \* duplicate-path guard of the walk
    tasks,                  \* suspended scans and searches, oldest first
    watch,                  \* file-change handlers that have not finished
    renderedFilter,         \* history: the temporal selection evaluated
                            \* by the render that made taskFiles
    lastCommand,            \* history: the TaskProvider method called last
    probe,                  \* a call of the timestamp codec under test
    left                    \* commands and edits the model may still issue

vars ==
    <<files, listing, now, primaryHashtag, currentFilter,
      currentPriorityFilter, currentSearchQuery, completionFilter,
      isScanning, title, taskFileData, taskFiles, scannedFiles, tasks,
      watch, renderedFilter, lastCommand, probe, left>>

env == <<files, listing, now, primaryHashtag, probe>>

\* No codec call is being followed.
NoProbe == [stage |-> "off"]

\* What files holds for a file whose read is rejected.
Unreadable == [unreadable |-> TRUE]

\* Bounds of the model.
MaxOps == 2

\* The inputs of the commands.
PriorityInputs == {"all", "p1", "p2", "p3"}

CompletionInputs == {"all", "completed", "not-completed"}

SearchInputs == {"Bug"}

\* getAllConfiguredHashtags with the default setting '#task, #todo, #note'.
ConfiguredHashtags == {"#task", "#todo", "#note"}

(***************************************************************************)
(* Classification and parsing of one file (scanFile).                      *)
(***************************************************************************)
\* scanFile: primaryHashtag === 'all-tags' ? containsAnyConfiguredHashtag
\*                                          : content.includes(primaryHashtag)
hasTaskHashtag(content) ==
    IF primaryHashtag = "all-tags"
    THEN content.tags \cap ConfiguredHashtags # {}
    ELSE primaryHashtag \in content.tags

\* The watcher's classification: content.includes(primaryHashtag) only.
watcherHasTaskHashtag(content) == primaryHashtag \in content.tags

\* An includeTask that does not consult the completion filter.
includeTask_anyCompletion(hasTag, content) == hasTag

\* includeTask of scanFile and of the watcher, given hasTaskHashtag.
includeTask(hasTag, content) ==
    /\ hasTag
    /\ \/ completionFilter = "all"
       \/ completionFilter = "completed" /\ "#done" \in content.tags
       \/ completionFilter = "not-completed" /\ "#done" \notin content.tags

\* priority: '#p2' is looked for first, then '#p3', else 'p1'.
detectPriority(content) ==
    IF "#p2" \in content.tags THEN "p2"
    ELSE IF "#p3" \in content.tags THEN "p3"
    ELSE "p1"

TaskFile(p, ts, str, prio, done) ==
    [filePath |-> p, timestamp |-> ts, timestampString |-> str,
     priority |-> prio, isCompleted |-> done]

\* The TaskFile scanFile pushes for a qualifying file.
scanFileItem(p, content) ==
    LET parsed == IF content.tok = NoToken THEN NoDate
                  ELSE parseTimestamp(content.tok)
    IN  TaskFile(p,
                 IF parsed = NoDate THEN SentinelInstant ELSE parsed,
                 IF content.tok = NoToken THEN PlaceholderToken
                 ELSE content.tok,
                 detectPriority(content),
                 "#done" \in content.tags)

(***************************************************************************)
(* Filter, sort and render.                                                *)
(***************************************************************************)
\* A rolling 72-hour window in place of the end of the third day.
threeDaysFromNow_rolling(t) == <<DayOf(t) + 3, t[2]>>

\* threeDaysFromNow: today + 3 days, 23:59:59.999.
threeDaysFromNow(t) == <<DayOf(t) + 3, 86399>>

\* An Overdue filter that also takes an item due exactly now.
filterByTime_inclusive(data, mode, t) ==
    LET soon(tf) == NotAfter(tf.timestamp, threeDaysFromNow(t))
        late(tf) == NotAfter(tf.timestamp, t)
    IN  IF mode = "Due Soon" THEN SelectSeq(data, soon)
        ELSE IF mode = "Overdue" THEN SelectSeq(data, late)
        ELSE data

\* The temporal filter of the three render paths; mode is the temporal
\* selection the path evaluates.
filterByTime(data, mode, t) ==
    LET soon(tf) == NotAfter(tf.timestamp, threeDaysFromNow(t))
        late(tf) == Before(tf.timestamp, t)
    IN  IF mode = "Due Soon" THEN SelectSeq(data, soon)
        ELSE IF mode = "Overdue" THEN SelectSeq(data, late)
        ELSE data

\* Apply priority filter if not "all".
filterByPriorityTag(data) ==
    LET same(tf) == tf.priority = currentPriorityFilter
    IN  IF currentPriorityFilter # "all" THEN SelectSeq(data, same) ELSE data

RECURSIVE insertByTimestamp(_, _)
insertByTimestamp(tf, sorted) ==
    IF sorted = <<>> THEN <<tf>>
    ELSE IF Before(Head(sorted).timestamp, tf.timestamp)
         THEN <<Head(sorted)>> \o insertByTimestamp(tf, Tail(sorted))
         ELSE <<tf>> \o sorted

\* A render that leaves the items in index order.
sortByTimestamp_unsorted(data) == data

\* Array.prototype.sort((a, b) => a.timestamp.getTime() - b.timestamp
\* .getTime()): a stable sort by due instant.
RECURSIVE sortByTimestamp(_)
sortByTimestamp(data) ==
    IF data = <<>> THEN <<>>
    ELSE insertByTimestamp(Head(data), sortByTimestamp(Tail(data)))

Unknown == [known |-> FALSE, n |-> 0]

\* getDaysDifference: '?' for a year >= 2050, else the day difference.
getDaysDifference(ts, t) ==
    IF GetFullYear(ts) >= 2050 THEN Unknown
    ELSE [known |-> TRUE, n |-> DayOf(ts) - DayOf(t)]

\* isFarFuture: more than 365 calendar days after today.
isFarFuture(ts, t) == DayOf(ts) - DayOf(t) > 365

\* displayText.substring(0, 50) on the texts of the model.
substring50(text) ==
    IF text = "Review the quarterly report with the team lead before Friday"
    THEN "Review the quarterly report with the team lead bef"
    ELSE text

\* getFileDisplayText: the file is read when the row is rendered.
getFileDisplayText(p, content) ==
    IF content = Unreadable THEN "(unable to read file)"
    ELSE IF content.lines = 1 /\ content.lead \in {"#", "["}
    THEN CleanFileName(p)
    ELSE IF content.lines = 0 THEN "(blank file)"
    ELSE IF Len(content.text) > 50 THEN substring50(content.text) \o "..."
    ELSE content.text

\* The icon selection with the far-future test ahead of the completion
\* test.
iconOf_farFutureFirst(tf, t) ==
    IF isFarFuture(tf.timestamp, t) THEN "white"
    ELSE IF tf.isCompleted THEN "check"
    ELSE IF tf.priority = "p2" THEN "orange"
    ELSE IF tf.priority = "p3" THEN "blue"
    ELSE "red"

\* The icon of a row.
iconOf(tf, t) ==
    IF tf.isCompleted THEN "check"
    ELSE IF isFarFuture(tf.timestamp, t) THEN "white"
    ELSE IF tf.priority = "p2" THEN "orange"
    ELSE IF tf.priority = "p3" THEN "blue"
    ELSE "red"

\* contextValue of a row.
contextValueOf(tf, t) ==
    LET hasRealTimestamp == GetFullYear(tf.timestamp) < 2050
    IN  IF isFarFuture(tf.timestamp, t) /\ ~hasRealTimestamp
        THEN "farFutureTask"
        ELSE IF hasRealTimestamp THEN "taskWithTimestamp"
        ELSE "taskWithoutTimestamp"

\* One TaskFileItem: the parts of its label, its uri, its tooltip's raw
\* timestamp and its contextValue.  due is the taskFile.timestamp the row
\* was rendered from.
renderItem(tf, t) ==
    [path |-> tf.filePath,
     icon |-> iconOf(tf, t),
     warn |-> Before(tf.timestamp, t),
     days |-> getDaysDifference(tf.timestamp, t),
     text |-> getFileDisplayText(tf.filePath, files[tf.filePath]),
     tip  |-> tf.timestampString,
     ctx  |-> contextValueOf(tf, t),
     due  |-> tf.timestamp]

renderAll(data, t) == [i \in 1..Len(data) |-> renderItem(data[i], t)]

(***************************************************************************)
(* The title of the view.                                                  *)
(***************************************************************************)
RECURSIVE join(_, _)
\* Array.prototype.join
join(parts, sep) ==
    IF parts = <<>> THEN ""
    ELSE IF Len(parts) = 1 THEN parts[1]
    ELSE parts[1] \o sep \o join(Tail(parts), sep)

\* updateTreeViewTitle, from the selection it is called with.
updateTreeViewTitle(pf, cf, comp, query) ==
    LET tagPart  == IF primaryHashtag = "all-tags" THEN <<>>
                    ELSE <<primaryHashtag>>
        prioPart == IF pf # "all" THEN <<ToUpperCase(pf)>> ELSE <<>>
        timePart == IF cf # "All" THEN <<ToUpperCase(cf)>> ELSE <<>>
        compPart == IF comp = "all" THEN <<>>
                    ELSE IF comp = "completed" THEN <<"DONE">>
                    ELSE <<"NOT DONE">>
        findPart == IF query # "" THEN <<"\"" \o query \o "\"">> ELSE <<>>
    IN  join(tagPart \o prioPart \o timePart \o compPart \o findPart, " - ")

(***************************************************************************)
(* Full rescan: scanForTaskFiles, suspended at readdir and at every        *)
(* readFile.                                                               *)
(***************************************************************************)
Task(kind, dueSoonOnly, overdueOnly, phase, todo, cur, data, query) ==
    [kind |-> kind, dueSoonOnly |-> dueSoonOnly, overdueOnly |-> overdueOnly,
     phase |-> phase, todo |-> todo, cur |-> cur, data |-> data,
     query |-> query]

remove(seq, i) == SubSeq(seq, 1, i - 1) \o SubSeq(seq, i + 1, Len(seq))

\* The synchronous part of a command that rescans: the selection and the
\* title are updated, the scanning flag is raised, scanForTaskFiles empties
\* the display list, the index and the guard set and suspends in readdir.
\* The task of a scan keeps, as history, the index the request emptied.
rescan(cmd, cf, pf, comp, dueSoonOnly, overdueOnly) ==
    /\ lastCommand' = cmd
    /\ currentFilter' = cf
    /\ currentPriorityFilter' = pf
    /\ completionFilter' = comp
    /\ currentSearchQuery' = ""
    /\ title' = updateTreeViewTitle(pf, cf, comp, "")
    /\ isScanning' = TRUE
    /\ taskFiles' = <<>>
    /\ renderedFilter' = "none"
    /\ taskFileData' = <<>>
    /\ scannedFiles' = {}
    /\ tasks' = Append(tasks, Task("scan", dueSoonOnly, overdueOnly,
                                   "readdir", <<>>, "", taskFileData, ""))

RECURSIVE skipScanned(_, _)
\* scanFile returns at once for a path already in scannedFiles.
skipScanned(todo, scanned) ==
    IF todo = <<>> THEN <<>>
    ELSE IF Head(todo) \in scanned THEN skipScanned(Tail(todo), scanned)
    ELSE todo

\* The end of scanForTaskFiles: filter, sort (in place when no filter made
\* a copy), render; then the caller lowers the scanning flag.
finishScan(i, data) ==
    LET tk       == tasks[i]
        mode     == IF tk.dueSoonOnly THEN "Due Soon"
                    ELSE IF tk.overdueOnly THEN "Overdue" ELSE "All"
        filtered == filterByPriorityTag(filterByTime(data, mode, now))
        sorted   == sortByTimestamp(filtered)
        inPlace  == mode = "All" /\ currentPriorityFilter = "all"
    IN  /\ taskFiles' = renderAll(sorted, now)
        /\ renderedFilter' = mode
        /\ taskFileData' = IF inPlace THEN sorted ELSE data
        /\ tasks' = remove(tasks, i)
        /\ isScanning' = FALSE
        /\ UNCHANGED scannedFiles

\* A scanFile whose catch empties the index.
scanFile_catchClears(p, content, data) ==
    IF content = Unreadable THEN <<>>
    ELSE IF includeTask(hasTaskHashtag(content), content)
    THEN Append(data, scanFileItem(p, content))
    ELSE data

\* scanFile after its readFile: a rejected read is caught and logged, a
\* qualifying content is pushed, any other content is passed over.
scanFile(p, content, data) ==
    IF content = Unreadable THEN data
    ELSE IF includeTask(hasTaskHashtag(content), content)
    THEN Append(data, scanFileItem(p, content))
    ELSE data

\* scanDirectory resumes: after readdir it starts on the listing, after a
\* readFile it classifies the file read and pushes its TaskFile; it then
\* goes on to the next entry not yet in scannedFiles, or finishes.
ScanStep(i) ==
    LET tk      == tasks[i]
        content == files[tk.cur]
        data    == IF tk.phase = "read"
                   THEN scanFile(tk.cur, content, taskFileData)
                   ELSE taskFileData
        rest    == skipScanned(IF tk.phase = "readdir" THEN listing
                               ELSE tk.todo, scannedFiles)
    IN  /\ tk.kind = "scan"
        /\ IF rest = <<>>
           THEN finishScan(i, data)
           ELSE /\ taskFileData' = data
                /\ scannedFiles' = scannedFiles \cup {Head(rest)}
                /\ tasks' = [tasks EXCEPT ![i] =
                                Task("scan", tk.dueSoonOnly, tk.overdueOnly,
                                     "read", Tail(rest), Head(rest), tk.data,
                                     "")]
                /\ UNCHANGED <<taskFiles, renderedFilter, isScanning>>
        /\ UNCHANGED <<env, currentFilter, currentPriorityFilter,
                       currentSearchQuery, completionFilter, title, watch,
                       lastCommand, left>>

(***************************************************************************)
(* The commands that rescan.                                               *)
(***************************************************************************)
Refresh ==
    /\ left > 0
    /\ rescan("refresh", "All", currentPriorityFilter, completionFilter,
              FALSE, FALSE)
    /\ left' = left - 1
    /\ UNCHANGED <<env, watch>>

RefreshDueSoon ==
    /\ left > 0
    /\ rescan("refreshDueSoon", "Due Soon", currentPriorityFilter,
              completionFilter, TRUE, FALSE)
    /\ left' = left - 1
    /\ UNCHANGED <<env, watch>>

RefreshOverdue ==
    /\ left > 0
    /\ rescan("refreshOverdue", "Overdue", currentPriorityFilter,
              completionFilter, FALSE, TRUE)
    /\ left' = left - 1
    /\ UNCHANGED <<env, watch>>

\* A filterByPriority that forgets to clear the search query.
FilterByPriority_keepsSearch ==
    /\ left > 0
    /\ \E pf \in PriorityInputs :
          /\ lastCommand' = "filterByPriority"
          /\ currentPriorityFilter' = pf
          /\ title' = updateTreeViewTitle(pf, currentFilter, completionFilter,
                                          currentSearchQuery)
    /\ isScanning' = TRUE
    /\ taskFiles' = <<>>
    /\ renderedFilter' = "none"
    /\ taskFileData' = <<>>
    /\ scannedFiles' = {}
    /\ tasks' = Append(tasks, Task("scan", FALSE, FALSE, "readdir", <<>>, "",
                                   taskFileData, ""))
    /\ left' = left - 1
    /\ UNCHANGED <<env, watch, currentFilter, completionFilter,
                   currentSearchQuery>>

\* filterByPriority: the priority selection changes, the search is cleared,
\* and a full rescan runs with no temporal flag.
FilterByPriority ==
    /\ left > 0
    /\ \E pf \in PriorityInputs :
          rescan("filterByPriority", currentFilter, pf, completionFilter,
                 FALSE, FALSE)
    /\ left' = left - 1
    /\ UNCHANGED <<env, watch>>

SetCompletionFilter ==
    /\ left > 0
    /\ \E comp \in CompletionInputs :
          rescan("setCompletionFilter", currentFilter,
                 currentPriorityFilter, comp, FALSE, FALSE)
    /\ left' = left - 1
    /\ UNCHANGED <<env, watch>>

\* A clearFilters that leaves the completion filter as it is.
ClearFilters_keepsCompletion ==
    /\ left > 0
    /\ rescan("clearFilters", "All", "all", completionFilter, FALSE, FALSE)
    /\ left' = left - 1
    /\ UNCHANGED <<env, watch>>

\* clearFilters: every filter back to its 'all' state, then a full rescan.
ClearFilters ==
    /\ left > 0
    /\ rescan("clearFilters", "All", "all", "all", FALSE, FALSE)
    /\ left' = left - 1
    /\ UNCHANGED <<env, watch>>

(***************************************************************************)
(* Search: applyFiltersToExistingData, suspended while filterTasksBySearch *)
(* reads the files.                                                        *)
(***************************************************************************)
\* filterTasksBySearch: the file name or the content read afresh contains
\* the query.
filterTasksBySearch(data, query) ==
    LET hit(tf) == \/ query \in NameFragments(FileName(tf.filePath))
                   \/ /\ files[tf.filePath] # Unreadable
                      /\ query \in files[tf.filePath].frags
    IN  SelectSeq(data, hit)

\* searchTasks: the query is stored in lower case, the temporal selection
\* becomes 'Search', and the filtered index is handed to the search.
SearchTasks ==
    /\ left > 0
    /\ \E q \in SearchInputs :
          /\ currentSearchQuery' = ToLowerCase(q)
          /\ currentFilter' = "Search"
          /\ title' = updateTreeViewTitle(currentPriorityFilter, "Search",
                                          completionFilter, ToLowerCase(q))
          /\ tasks' = Append(tasks,
                  Task("search", FALSE, FALSE, "read", <<>>, "",
                       filterByPriorityTag(
                           filterByTime(taskFileData, "Search", now)),
                       ToLowerCase(q)))
    /\ isScanning' = TRUE
    /\ lastCommand' = "searchTasks"
    /\ left' = left - 1
    /\ UNCHANGED <<env, currentPriorityFilter, completionFilter,
                   taskFileData, taskFiles, renderedFilter, scannedFiles,
                   watch>>

\* The search resumes after its reads: sort, render, lower the flag.
SearchStep(i) ==
    LET tk     == tasks[i]
        sorted == sortByTimestamp(filterTasksBySearch(tk.data, tk.query))
    IN  /\ tk.kind = "search"
        /\ taskFiles' = renderAll(sorted, now)
        /\ renderedFilter' = "Search"
        /\ tasks' = remove(tasks, i)
        /\ isScanning' = FALSE
        /\ UNCHANGED <<env, currentFilter, currentPriorityFilter,
                       currentSearchQuery, completionFilter, title,
                       taskFileData, scannedFiles, watch, lastCommand,
                       left>>

\* A rebuild that keeps in the index only the items it displays.
rebuildTaskDisplay_storesFiltered(data, cf) ==
    LET filtered == filterByPriorityTag(filterByTime(data, cf, now))
        sorted   == sortByTimestamp(filtered)
    IN  /\ taskFiles' = renderAll(sorted, now)
        /\ renderedFilter' = cf
        /\ taskFileData' = sorted

\* applyFiltersToExistingData without a query, and rebuildTaskDisplay: no
\* suspension; the sort is in place when no filter made a copy.
rebuildTaskDisplay(data, cf) ==
    LET filtered == filterByPriorityTag(filterByTime(data, cf, now))
        sorted   == sortByTimestamp(filtered)
        inPlace  == cf \notin {"Due Soon", "Overdue"}
                    /\ currentPriorityFilter = "all"
    IN  /\ taskFiles' = renderAll(sorted, now)
        /\ renderedFilter' = cf
        /\ taskFileData' = IF inPlace THEN sorted ELSE data

\* clearSearch: the query is emptied, 'Search' falls back to 'All', and the
\* display is rebuilt from the index.
ClearSearch ==
    LET cf == IF currentFilter = "Search" THEN "All" ELSE currentFilter
    IN  /\ left > 0
        /\ currentSearchQuery' = ""
        /\ currentFilter' = cf
        /\ title' = updateTreeViewTitle(currentPriorityFilter, cf,
                                        completionFilter, "")
        /\ rebuildTaskDisplay(taskFileData, cf)
        /\ isScanning' = FALSE
        /\ lastCommand' = "clearSearch"
        /\ left' = left - 1
        /\ UNCHANGED <<env, currentPriorityFilter, completionFilter,
                       scannedFiles, tasks, watch>>

(***************************************************************************)
(* The file watcher and the incremental update.                            *)
(***************************************************************************)
Unread == [unread |-> TRUE]

\* A file is saved with another content; the watcher's onDidChange handler
\* starts and waits out its delay.
EditFile ==
    /\ left > 0
    /\ \E p \in Paths, c \in Contents :
          /\ c # files[p]
          /\ files' = [files EXCEPT ![p] = c]
          /\ watch' = Append(watch, [path |-> p, content |-> Unread])
    /\ left' = left - 1
    /\ UNCHANGED <<listing, now, primaryHashtag, probe, currentFilter,
                   currentPriorityFilter, currentSearchQuery,
                   completionFilter, isScanning, title, taskFileData,
                   taskFiles, renderedFilter, scannedFiles, tasks,
                   lastCommand>>

\* The handler's readFile completes; when it is rejected the handler's
\* catch logs the error and the handler ends.
WatcherRead(i) ==
    /\ watch[i].content = Unread
    /\ watch' = IF files[watch[i].path] = Unreadable
                THEN remove(watch, i)
                ELSE [watch EXCEPT ![i].content = files[watch[i].path]]
    /\ UNCHANGED <<env, currentFilter, currentPriorityFilter,
                   currentSearchQuery, completionFilter, isScanning, title,
                   taskFileData, taskFiles, renderedFilter, scannedFiles,
                   tasks, lastCommand, left>>

\* taskFileData.findIndex(task => task.filePath === filePath), 0 if none.
findIndex(data, p) ==
    IF \E i \in 1..Len(data) : data[i].filePath = p
    THEN CHOOSE i \in 1..Len(data) :
             /\ data[i].filePath = p
             /\ \A j \in 1..(i - 1) : data[j].filePath # p
    ELSE 0

\* The rest of the handler: classify the content read; a qualifying file
\* with a timestamp goes to updateSingleTask, which replaces the indexed
\* TaskFile (priority and completion from a fresh read) and rebuilds the
\* display; every other case, a path not in the index, a timestamp that
\* does not parse and a fresh read that is rejected fall back to refresh().
WatcherStep(i) ==
    LET p       == watch[i].path
        content == watch[i].content
        idx     == findIndex(taskFileData, p)
        ts      == IF content.tok = NoToken THEN NoDate
                   ELSE parseTimestamp(content.tok)
        fresh   == files[p]
        updated == TaskFile(p, ts, content.tok, detectPriority(fresh),
                            "#done" \in fresh.tags)
    IN  /\ content # Unread
        /\ watch' = remove(watch, i)
        /\ IF /\ includeTask(watcherHasTaskHashtag(content), content)
              /\ content.tok # NoToken
              /\ idx # 0
              /\ ts # NoDate
              /\ fresh # Unreadable
           THEN /\ rebuildTaskDisplay(
                       [taskFileData EXCEPT ![idx] = updated], currentFilter)
                /\ lastCommand' = "updateSingleTask"
                /\ UNCHANGED <<currentFilter, currentPriorityFilter,
                               currentSearchQuery, completionFilter,
                               isScanning, title, scannedFiles, tasks>>
           ELSE rescan("refresh", "All", currentPriorityFilter,
                       completionFilter, FALSE, FALSE)
        /\ UNCHANGED <<env, left>>

(***************************************************************************)
(* What the host is given.                                                 *)
(***************************************************************************)
\* The single row shown while the scanning flag is set.
ScanningIndicator == [label |-> "Scanning workspace..."]

\* getChildren() for the root: the scanning indicator while isScanning,
\* otherwise the display list.
getChildren == IF isScanning THEN <<ScanningIndicator>> ELSE taskFiles

(***************************************************************************)
(* The state machine.                                                      *)
(***************************************************************************)
\* The orders in which the folder can be listed.
Listings == {<<"0001_plan.md", "fix-login-bug.md">>,
             <<"fix-login-bug.md", "0001_plan.md">>}

\* The workspaces the model starts from: <<content of 0001_plan.md,
\* content of fix-login-bug.md>>.
Workspaces ==
    {<<cYesterday, cYesterday>>, <<cNoTimestamp, cToday>>,
     <<cPlus4, cPlus3>>, <<cYear2060, cTomorrowDone>>, <<cTodo, cBadMonth>>}

\* After construction and setTreeView: nothing indexed, default selection.
Init ==
    /\ \E w \in Workspaces :
          files = [p \in Paths |-> IF p = "0001_plan.md" THEN w[1] ELSE w[2]]
    /\ listing \in Listings
    /\ now \in Clock
    /\ primaryHashtag \in {"#task", "all-tags"}
    /\ currentFilter = "All"
    /\ currentPriorityFilter = "all"
    /\ currentSearchQuery = ""
    /\ completionFilter = "not-completed"
    /\ isScanning = FALSE
    /\ title = updateTreeViewTitle("all", "All", "not-completed", "")
    /\ taskFileData = <<>>
    /\ taskFiles = <<>>
    /\ scannedFiles = {}
    /\ tasks = <<>>
    /\ watch = <<>>
    /\ renderedFilter = "none"
    /\ lastCommand = "none"
    /\ probe = NoProbe
    /\ left = MaxOps

Next ==
    \/ Refresh
    \/ RefreshDueSoon
    \/ RefreshOverdue
    \/ FilterByPriority
    \/ SetCompletionFilter
    \/ ClearFilters
    \/ SearchTasks
    \/ ClearSearch
    \/ EditFile
    \/ \E i \in 1..Len(tasks) : ScanStep(i)
    \/ \E i \in 1..Len(tasks) : SearchStep(i)
    \/ \E i \in 1..Len(watch) : WatcherRead(i)
    \/ \E i \in 1..Len(watch) : WatcherStep(i)

Spec == Init /\ [][Next]_vars

(***************************************************************************)
(* The sequential specification: a command or an edit is issued only when  *)
(* every earlier one has completed (no scan, search or handler in flight); *)
(* one more of them may be issued than under Spec.                         *)
(***************************************************************************)
\* No scan, search or file-change handler is in flight.
Idle == tasks = <<>> /\ watch = <<>>

InitSeq ==
    /\ \E w \in Workspaces :
          files = [p \in Paths |-> IF p = "0001_plan.md" THEN w[1] ELSE w[2]]
    /\ listing \in Listings
    /\ now \in Clock
    /\ primaryHashtag \in {"#task", "all-tags"}
    /\ currentFilter = "All"
    /\ currentPriorityFilter = "all"
    /\ currentSearchQuery = ""
    /\ completionFilter = "not-completed"
    /\ isScanning = FALSE
    /\ title = updateTreeViewTitle("all", "All", "not-completed", "")
    /\ taskFileData = <<>>
    /\ taskFiles = <<>>
    /\ scannedFiles = {}
    /\ tasks = <<>>
    /\ watch = <<>>
    /\ renderedFilter = "none"
    /\ lastCommand = "none"
    /\ probe = NoProbe
    /\ left = MaxOps + 1

NextSeq ==
    \/ Idle /\ Refresh
    \/ Idle /\ RefreshDueSoon
    \/ Idle /\ RefreshOverdue
    \/ Idle /\ FilterByPriority
    \/ Idle /\ SetCompletionFilter
    \/ Idle /\ ClearFilters
    \/ Idle /\ SearchTasks
    \/ Idle /\ ClearSearch
    \/ Idle /\ EditFile
    \/ \E i \in 1..Len(tasks) : ScanStep(i)
    \/ \E i \in 1..Len(tasks) : SearchStep(i)
    \/ \E i \in 1..Len(watch) : WatcherRead(i)
    \/ \E i \in 1..Len(watch) : WatcherStep(i)

SpecSeq == InitSeq /\ [][NextSeq]_vars

(***************************************************************************)
(* The sequential specification with I/O failures: a file can be saved and *)
(* left unreadable, and the readdir of a walk can be rejected.             *)
(***************************************************************************)
\* A file is saved and every later read of it is rejected (until it is
\* saved again); the watcher's onDidChange handler starts.
SaveUnreadable ==
    /\ left > 0
    /\ \E p \in Paths :
          /\ files[p] # Unreadable
          /\ files' = [files EXCEPT ![p] = Unreadable]
          /\ watch' = Append(watch, [path |-> p, content |-> Unread])
    /\ left' = left - 1
    /\ UNCHANGED <<listing, now, primaryHashtag, probe, currentFilter,
                   currentPriorityFilter, currentSearchQuery,
                   completionFilter, isScanning, title, taskFileData,
                   taskFiles, renderedFilter, scannedFiles, tasks,
                   lastCommand>>

\* scanDirectory's readdir is rejected: its catch logs the error, the walk
\* is over and scanForTaskFiles goes on to filter, sort and render.
ReaddirFails(i) ==
    /\ tasks[i].kind = "scan"
    /\ tasks[i].phase = "readdir"
    /\ finishScan(i, taskFileData)
    /\ UNCHANGED <<env, currentFilter, currentPriorityFilter,
                   currentSearchQuery, completionFilter, title, watch,
                   lastCommand, left>>

NextFail ==
    \/ Idle /\ Refresh
    \/ Idle /\ RefreshDueSoon
    \/ Idle /\ RefreshOverdue
    \/ Idle /\ FilterByPriority
    \/ Idle /\ SetCompletionFilter
    \/ Idle /\ ClearFilters
    \/ Idle /\ SearchTasks
    \/ Idle /\ ClearSearch
    \/ Idle /\ EditFile
    \/ Idle /\ SaveUnreadable
    \/ \E i \in 1..Len(tasks) : ScanStep(i)
    \/ \E i \in 1..Len(tasks) : ReaddirFails(i)
    \/ \E i \in 1..Len(tasks) : SearchStep(i)
    \/ \E i \in 1..Len(watch) : WatcherRead(i)
    \/ \E i \in 1..Len(watch) : WatcherStep(i)

SpecFail == InitSeq /\ [][NextFail]_vars

(***************************************************************************)
(* The timestamp codec on its own: a text or an instant is chosen, parsed  *)
(* and formatted; the provider stays as constructed.                       *)
(***************************************************************************)
engineVars ==
    <<files, listing, now, primaryHashtag, currentFilter,
      currentPriorityFilter, currentSearchQuery, completionFilter,
      isScanning, title, taskFileData, taskFiles, scannedFiles, tasks,
      watch, renderedFilter, lastCommand, left>>

\* The fields the texts of the model are written from.
CodecMonths == {1, 2, 9, 12, 13, 30}

CodecDays == {1, 9, 29, 30, 31}

CodecYears ==
    {[digits |-> 4, y |-> 2023], [digits |-> 4, y |-> 2024],
     [digits |-> 4, y |-> 2025], [digits |-> 4, y |-> 1999],
     [digits |-> 2, y |-> 25]}

CodecTimes ==
    {<<>>, <<12, 0, 0, "AM">>, <<12, 0, 0, "PM">>, <<8, 15, 30, "AM">>,
     <<2, 30, 45, "PM">>, <<11, 59, 59, "PM">>, <<5, 0, 0, "PM">>,
     <<25, 0, 0, "PM">>, <<0, 15, 0, "AM">>}

\* The empty text.
EmptySource ==
    [lb |-> FALSE, rb |-> FALSE, nf |-> 0, mo |-> 1, dd |-> 1,
     yr |-> [digits |-> 4, y |-> 2025], tm |-> <<>>]

\* lb, rb: the brackets are written; nf: the number of date fields.
CodecSources ==
    {EmptySource} \cup
    {src \in [lb : BOOLEAN, rb : BOOLEAN, nf : {2, 3}, mo : CodecMonths,
              dd : CodecDays, yr : CodecYears, tm : CodecTimes] :
        src.nf = 3 \/ (src.yr = [digits |-> 4, y |-> 2025] /\ src.tm = <<>>)}

\* The text written from the fields.
Compose(src) ==
    LET year == IF src.yr.digits = 4 THEN String4(src.yr.y)
                ELSE padStart2(src.yr.y)
        date == padStart2(src.mo) \o <<"/">> \o padStart2(src.dd)
                \o (IF src.nf = 3 THEN <<"/">> \o year ELSE <<>>)
        time == IF src.tm = <<>> THEN <<>>
                ELSE <<" ">> \o padStart2(src.tm[1]) \o <<":">>
                     \o padStart2(src.tm[2]) \o <<":">>
                     \o padStart2(src.tm[3])
                     \o (IF src.tm[4] = "PM" THEN <<" ", "P", "M">>
                         ELSE <<" ", "A", "M">>)
    IN  IF src.nf = 0 THEN <<>>
        ELSE (IF src.lb THEN <<"[">> ELSE <<>>) \o date \o time
             \o (IF src.rb THEN <<"]">> ELSE <<>>)

\* Instants with whole seconds and a year in 2000..2099.
CodecInstants ==
    {MakeInstant(y, md[1], md[2], hms[1], hms[2], hms[3]) :
        y \in {2000, 2024, 2025, 2099},
        md \in {<<1, 1>>, <<2, 28>>, <<9, 30>>, <<12, 31>>},
        hms \in {<<0, 0, 0>>, <<0, 30, 0>>, <<11, 59, 59>>, <<12, 0, 0>>,
                 <<12, 30, 15>>, <<17, 0, 0>>, <<23, 59, 59>>}}

Probe(stage, src, text, date, out, back) ==
    [stage |-> stage, src |-> src, text |-> text, date |-> date,
     out |-> out, back |-> back]

InitCodec ==
    /\ \/ \E src \in CodecSources :
             probe = Probe("text", src, Compose(src), NoDate, <<>>, NoDate)
       \/ \E d \in CodecInstants :
             probe = Probe("instant", EmptySource, <<>>, d, <<>>, NoDate)
    /\ files = [p \in Paths |-> cPlain]
    /\ listing = <<"0001_plan.md", "fix-login-bug.md">>
    /\ now = MakeInstant(2025, 9, 27, 12, 0, 0)
    /\ primaryHashtag = "#task"
    /\ currentFilter = "All"
    /\ currentPriorityFilter = "all"
    /\ currentSearchQuery = ""
    /\ completionFilter = "not-completed"
    /\ isScanning = FALSE
    /\ title = updateTreeViewTitle("all", "All", "not-completed", "")
    /\ taskFileData = <<>>
    /\ taskFiles = <<>>
    /\ scannedFiles = {}
    /\ tasks = <<>>
    /\ watch = <<>>
    /\ renderedFilter = "none"
    /\ lastCommand = "none"
    /\ left = 0

\* parseTimestamp(text)
ParseText ==
    /\ probe.stage = "text"
    /\ probe' = [probe EXCEPT !.stage = "parsed",
                              !.date = parseTimestampText(probe.text)]
    /\ UNCHANGED engineVars

\* A parsed timestamp is written back in the format it was read in, as
\* addTimeToTask does.
FormatParsed ==
    /\ probe.stage = "parsed"
    /\ probe.date # NoDate
    /\ probe' = [probe EXCEPT
                    !.stage = "formatted",
                    !.out = formatTimestamp(probe.date,
                                            isLongFormat(probe.text))]
    /\ UNCHANGED engineVars

\* parseTimestamp(formatTimestamp(..))
ParseFormatted ==
    /\ probe.stage = "formatted"
    /\ probe' = [probe EXCEPT !.stage = "reparsed",
                              !.back = parseTimestampText(probe.out)]
    /\ UNCHANGED engineVars

\* formatTimestamp(date), the time included.
FormatInstant ==
    /\ probe.stage = "instant"
    /\ probe' = [probe EXCEPT !.stage = "printed",
                              !.out = formatTimestamp(probe.date, TRUE)]
    /\ UNCHANGED engineVars

ParsePrinted ==
    /\ probe.stage = "printed"
    /\ probe' = [probe EXCEPT !.stage = "read",
                              !.back = parseTimestampText(probe.out)]
    /\ UNCHANGED engineVars

NextCodec ==
    \/ ParseText
    \/ FormatParsed
    \/ ParseFormatted
    \/ FormatInstant
    \/ ParsePrinted

SpecCodec == InitCodec /\ [][NextCodec]_vars

(***************************************************************************)
(* Properties.                                                             *)
(***************************************************************************)
Rows == {taskFiles[i] : i \in 1..Len(taskFiles)}

Items == {taskFileData[i] : i \in 1..Len(taskFileData)}

\* An indexed item satisfies the current Filter Selection on the
\* completion, temporal and priority axes.
passesCompletion(tf) ==
    \/ completionFilter = "all"
    \/ completionFilter = "completed" /\ tf.isCompleted
    \/ completionFilter = "not-completed" /\ ~tf.isCompleted

passesTemporal(tf) ==
    /\ currentFilter = "Due Soon" => DayOf(tf.timestamp) <= DayOf(now) + 3
    /\ currentFilter = "Overdue" => Before(tf.timestamp, now)

passesPriority(tf) ==
    currentPriorityFilter = "all" \/ tf.priority = currentPriorityFilter

\* C1: once every operation has completed, the display list holds exactly
\* the indexed items that satisfy completionMode AND temporalMode AND
\* priorityMode of the current Filter Selection.
C1_AllAxesApplied ==
    (Idle /\ currentSearchQuery = "" /\ currentFilter # "Search") =>
        {r.path : r \in Rows} =
            {tf.filePath : tf \in
                {x \in Items : /\ passesCompletion(x)
                               /\ passesTemporal(x)
                               /\ passesPriority(x)}}

\* The temporal mode a value of currentFilter stands for: 'Search' applies
\* no temporal filter.
TemporalMode(cf) == IF cf = "Search" THEN "All" ELSE cf

\* C2: setting a non-empty search text leaves the completion, temporal and
\* priority modes of the Filter Selection as they were.
C2_SearchKeepsSelection ==
    [][(currentSearchQuery' # "" /\ currentSearchQuery' # currentSearchQuery)
          => /\ TemporalMode(currentFilter') = TemporalMode(currentFilter)
             /\ currentPriorityFilter' = currentPriorityFilter
             /\ completionFilter' = completionFilter]_vars

\* The index a complete walk of the folder builds under the current
\* completion filter, and the display list a render of it gives under the
\* current Filter Selection, search text included.
RECURSIVE walk(_)
walk(entries) ==
    IF entries = <<>> THEN <<>>
    ELSE LET p == Head(entries)
         IN  (IF includeTask(hasTaskHashtag(files[p]), files[p])
              THEN <<scanFileItem(p, files[p])>> ELSE <<>>)
             \o walk(Tail(entries))

rescanDisplay ==
    LET timed    == filterByTime(walk(listing), TemporalMode(currentFilter),
                                 now)
        byPrio   == filterByPriorityTag(timed)
        searched == IF currentSearchQuery = "" THEN byPrio
                    ELSE filterTasksBySearch(byPrio, currentSearchQuery)
    IN  renderAll(sortByTimestamp(searched), now)

rowsOf(display, p) == {display[k] : k \in {j \in 1..Len(display) :
                                              display[j].path = p}}

itemsOf(data, p) == {data[k] : k \in {j \in 1..Len(data) :
                                         data[j].filePath = p}}

\* C3: when the watcher updates a single changed path, the item the index
\* holds for that path, and whether and how it appears in the display
\* list, are what a full rescan under the same Filter Selection gives.
C3_UpdateMatchesRescan ==
    [][\A i \in 1..Len(watch) :
          (/\ lastCommand' = "updateSingleTask"
           /\ watch' = remove(watch, i)
           /\ tasks = <<>>)
          => /\ itemsOf(taskFileData', watch[i].path)
                  = itemsOf(walk(listing), watch[i].path)
             /\ rowsOf(taskFiles', watch[i].path)
                  = rowsOf(rescanDisplay, watch[i].path)]_vars

ScanInFlight == \E i \in 1..Len(tasks) : tasks[i].kind = "scan"

shown(tf) == \E r \in Rows : r.path = tf.filePath /\ r.due = tf.timestamp

\* C4: a display list rendered under Due Soon holds only items whose due
\* day is at most three days after today, and, once no scan is in flight,
\* every indexed item of the current priority with such a due day, overdue
\* items included; the comparison is by due day, the third day inclusive.
C4_DueSoonWindow ==
    renderedFilter = "Due Soon" =>
        /\ \A r \in Rows : DayOf(r.due) <= DayOf(now) + 3
        /\ ~ScanInFlight =>
              /\ \A r \in Rows : \E tf \in Items :
                    tf.filePath = r.path /\ tf.timestamp = r.due
              /\ \A tf \in Items :
                    (DayOf(tf.timestamp) <= DayOf(now) + 3
                        /\ passesPriority(tf)) => shown(tf)
              /\ \A tf \in Items :
                    (Before(tf.timestamp, now) /\ passesPriority(tf))
                        => shown(tf)

\* A Due Soon list, evaluated at noon or at 6 PM, that shows the item due on
\* the third day at 5 PM while the index also holds an item due on the
\* fourth day, which it leaves out.
C4_Witness ==
    /\ renderedFilter = "Due Soon"
    /\ Idle
    /\ \E r \in Rows : r.due = MakeInstant(2025, 9, 30, 17, 0, 0)
    /\ \E tf \in Items : DayOf(tf.timestamp) = DayOf(now) + 4 /\ ~shown(tf)

\* C5: a display list rendered under Overdue holds only items whose due
\* instant is strictly before now, and a row of any display list carries
\* the warning marker exactly when its due instant is strictly before now.
C5_OverdueStrict ==
    /\ renderedFilter = "Overdue" =>
          \A r \in Rows : Before(r.due, now) /\ r.warn
    /\ \A r \in Rows : r.warn <=> Before(r.due, now)

\* An Overdue list with a row due earlier today, and a list whose row due
\* exactly now carries no marker.
C5_Witness ==
    /\ renderedFilter = "Overdue"
    /\ Idle
    /\ \E r \in Rows : DayOf(r.due) = DayOf(now) /\ r.warn

C5_WitnessNow ==
    /\ Idle
    /\ \E r \in Rows : r.due = now /\ ~r.warn

\* The order of two paths as strings.
PathRank(p) == IF p = "0001_plan.md" THEN 1 ELSE 2

\* C6 as stated: the display list ascends by due instant, and rows with
\* equal due instants ascend by path.
C6_SortedByDueThenPath ==
    \A i, j \in 1..Len(taskFiles) :
        i < j =>
            \/ Before(taskFiles[i].due, taskFiles[j].due)
            \/ /\ taskFiles[i].due = taskFiles[j].due
               /\ PathRank(taskFiles[i].path) < PathRank(taskFiles[j].path)

\* C6: every display list ascends by due instant; rows with equal due
\* instants are in no order the path decides.
C6_SortedByDue ==
    \A i, j \in 1..Len(taskFiles) :
        i < j => NotAfter(taskFiles[i].due, taskFiles[j].due)

\* A list of two rows whose order is the reverse of the order the walk
\* indexed them in.
C6_Witness ==
    /\ Idle
    /\ Len(taskFiles) = 2
    /\ Before(taskFiles[1].due, taskFiles[2].due)
    /\ listing = <<taskFiles[2].path, taskFiles[1].path>>

\* The row's file carries a timestamp token that parses.
hasParsableTimestamp(r) ==
    /\ files[r.path].tok # NoToken
    /\ parseTimestamp(files[r.path].tok) # NoDate

\* C7: in a display list every row of an item without a parsable timestamp
\* comes after every row of an item with a genuine due date.
C7_SentinelLast ==
    Idle =>
        \A i, j \in 1..Len(taskFiles) :
            (hasParsableTimestamp(taskFiles[i])
                /\ ~hasParsableTimestamp(taskFiles[j])) => i < j

\* C8: the relative-day annotation of a row is the difference in calendar
\* days between its due day and today when its file carries a valid
\* timestamp token, and "unknown" exactly when it carries none.
C8_RelativeDays ==
    Idle =>
        \A r \in Rows :
            IF hasParsableTimestamp(r)
            THEN r.days = [known |-> TRUE,
                           n |-> DayOf(parseTimestamp(files[r.path].tok))
                                    - DayOf(now)]
            ELSE r.days = Unknown

\* C9 as stated: after clearFilters the Filter Selection is the initial
\* one: All, any priority, not completed, no search text.
C9_ClearFiltersInitial ==
    lastCommand = "clearFilters" =>
        /\ currentFilter = "All"
        /\ currentPriorityFilter = "all"
        /\ completionFilter = "not-completed"
        /\ currentSearchQuery = ""

\* C9: after clearFilters the Filter Selection is All, any priority, any
\* completion state, no search text, and the title names the tag alone.
C9_ClearFiltersAll ==
    lastCommand = "clearFilters" =>
        /\ currentFilter = "All"
        /\ currentPriorityFilter = "all"
        /\ completionFilter = "all"
        /\ currentSearchQuery = ""
        /\ title = (IF primaryHashtag = "all-tags" THEN "" ELSE primaryHashtag)
        /\ (Idle /\ renderedFilter = "All") =>
              {r.path : r \in Rows}
                  = {p \in Paths : hasTaskHashtag(files[p])}

\* clearFilters has completed and the list shows a completed item.
C9_Witness ==
    /\ lastCommand = "clearFilters"
    /\ Idle
    /\ \E tf \in Items : tf.isCompleted /\ shown(tf)

\* The title as the specification composes it: the tag, then the priority,
\* the temporal mode, the completion mode unless it is not-completed, and
\* the search text.
titleOfSelection(anyPart) ==
    LET tagPart  == IF primaryHashtag = "all-tags" THEN <<>>
                    ELSE <<primaryHashtag>>
        prioPart == IF currentPriorityFilter # "all"
                    THEN <<ToUpperCase(currentPriorityFilter)>> ELSE <<>>
        timePart == IF currentFilter # "All"
                    THEN <<ToUpperCase(currentFilter)>> ELSE <<>>
        compPart == IF completionFilter = "not-completed" THEN <<>>
                    ELSE IF completionFilter = "completed" THEN <<"DONE">>
                    ELSE anyPart
        findPart == IF currentSearchQuery # ""
                    THEN <<"\"" \o currentSearchQuery \o "\"">> ELSE <<>>
    IN  join(tagPart \o prioPart \o timePart \o compPart \o findPart, " - ")

\* C10: the title is composed from the current Filter Selection, the
\* completion mode being left out when it is not-completed.
C10_TitleOfSelection ==
    \E anyPart \in {<<>>, <<"DONE">>, <<"NOT DONE">>} :
        title = titleOfSelection(anyPart)

\* The methods of the provider that set or clear a filter, searchTasks
\* apart.
ClearingCommands ==
    {"refresh", "refreshDueSoon", "refreshOverdue", "filterByPriority",
     "setCompletionFilter", "clearSearch", "clearFilters"}

\* C11: every filter operation other than searchTasks leaves the search
\* text empty, so the search text is non-empty only while searchTasks is
\* the most recent filter operation (single-file updates by the watcher
\* are not filter operations and leave the text alone).
C11_SearchTextOnlyAfterSearch ==
    /\ lastCommand \in ClearingCommands \cup {"none"}
          => currentSearchQuery = ""
    /\ currentSearchQuery # ""
          => lastCommand \in {"searchTasks", "updateSingleTask"}

\* A priority change made while a search was still reading files: the
\* search text is empty again.
C11_Witness ==
    /\ lastCommand = "filterByPriority"
    /\ currentSearchQuery = ""
    /\ \E i \in 1..Len(tasks) : tasks[i].kind = "search"

\* The number of days of a month of the calendar.
DaysInMonth(y, m) ==
    IF m = 2
    THEN (IF (y % 4 = 0 /\ y % 100 # 0) \/ y % 400 = 0 THEN 29 ELSE 28)
    ELSE IF m \in {4, 6, 9, 11} THEN 30 ELSE 31

\* The text has both brackets, three date fields and a year 20YY.
WellShaped(src) ==
    /\ src.lb /\ src.rb
    /\ src.nf = 3
    /\ src.yr.digits = 4
    /\ src.yr.y \in 2000..2099

\* The fields denote a day of the calendar and a time of the 12-hour clock.
RealDateTime(src) ==
    /\ src.mo \in 1..12
    /\ src.dd \in 1..DaysInMonth(src.yr.y, src.mo)
    /\ src.tm # <<>> =>
          /\ src.tm[1] \in 1..12
          /\ src.tm[2] \in 0..59
          /\ src.tm[3] \in 0..59

\* The hour of the day a 12-hour clock reading denotes.
HourOfDay(h, ap) ==
    IF ap = "AM" THEN (IF h = 12 THEN 0 ELSE h)
    ELSE (IF h = 12 THEN 12 ELSE h + 12)

\* C12: parsing a well-formed token gives the instant with the token's
\* year, month and day; noon for a date-only token; and for a full token
\* the hour of the day its 12-hour reading denotes (12 AM is 0, 12 PM is
\* 12) with the token's minutes and seconds.
C12_ParseWellFormed ==
    (probe.stage = "parsed" /\ WellShaped(probe.src)
        /\ RealDateTime(probe.src)) =>
        /\ probe.date # NoDate
        /\ GetFullYear(probe.date) = probe.src.yr.y
        /\ civil(probe.date).month = probe.src.mo
        /\ civil(probe.date).day = probe.src.dd
        /\ probe.date[2] =
              IF probe.src.tm = <<>> THEN 12 * 3600
              ELSE HourOfDay(probe.src.tm[1], probe.src.tm[4]) * 3600
                   + probe.src.tm[2] * 60 + probe.src.tm[3]

\* '[02/29/2024 12:00:00 AM]' has been parsed to midnight of that day.
C12_Witness ==
    /\ probe.stage = "parsed"
    /\ WellShaped(probe.src)
    /\ probe.src.mo = 2 /\ probe.src.dd = 29 /\ probe.src.yr.y = 2024
    /\ probe.src.tm = <<12, 0, 0, "AM">>
    /\ probe.date = MakeInstant(2024, 2, 29, 0, 0, 0)

\* C13: parsing fails on every structurally malformed text: a missing
\* bracket, a date without three fields, a year that is not four digits
\* beginning with 20, the empty text.
C13_MalformedFails ==
    (probe.stage = "parsed" /\ ~WellShaped(probe.src)) =>
        probe.date = NoDate

\* C14: parsing a text of the right shape succeeds exactly when its fields
\* denote a real calendar date and a time of the 12-hour clock.
C14_ImpossibleDateFails ==
    (probe.stage = "parsed" /\ WellShaped(probe.src)) =>
        (probe.date # NoDate <=> RealDateTime(probe.src))

\* C15: a parsed token, formatted with the time included exactly when the
\* token has one, parses to the same instant again; and an instant with
\* whole seconds of the years 2000..2099, formatted and parsed, comes back
\* unchanged.
C15_RoundTrip ==
    /\ probe.stage = "reparsed" => probe.back = probe.date
    /\ probe.stage = "read" => probe.back = probe.date

\* '[.. 12:00:00 PM]' has made the round trip.
C15_Witness ==
    /\ probe.stage = "reparsed"
    /\ WellShaped(probe.src) /\ RealDateTime(probe.src)
    /\ probe.src.tm = <<12, 0, 0, "PM">>
    /\ probe.back = probe.date

C15_WitnessInstant ==
    /\ probe.stage = "read"
    /\ probe.date = MakeInstant(2099, 12, 31, 23, 59, 59)
    /\ probe.back = probe.date

\* C16: a file is classified as an item by the same decision wherever it
\* is classified: what the file-change handler decides for the content it
\* read is what the scan decides for that content (the active tag, or any
\* configured tag in wildcard mode).
C16_SameClassification ==
    \A i \in 1..Len(watch) :
        watch[i].content # Unread =>
            watcherHasTaskHashtag(watch[i].content)
                = hasTaskHashtag(watch[i].content)

\* The first of #p1, #p2, #p3 a content carries, P1 when it carries none.
FirstPriorityToken(content) ==
    IF "#p1" \in content.tags THEN "p1"
    ELSE IF "#p2" \in content.tags THEN "p2"
    ELSE IF "#p3" \in content.tags THEN "p3"
    ELSE "p1"

\* C17: the priority of an indexed item is the first match among #p1, #p2,
\* #p3 in its file's content, P1 when there is none, whether a full scan
\* or an incremental update indexed it.
C17_FirstPriorityToken ==
    Idle =>
        \A tf \in Items :
            tf.priority = FirstPriorityToken(files[tf.filePath])

\* The label the specification gives a file name: the extension and a
\* leading run of digits and underscores stripped; "Fix login bug" for
\* fix-login-bug.md.
LabelOfFileName(p) ==
    IF p = "fix-login-bug.md" THEN "Fix login bug" ELSE CleanFileName(p)

\* C18: the row of a file whose only non-blank line starts with '#' or '['
\* is labelled from the file name; fix-login-bug.md is labelled
\* "Fix login bug".
C18_FilenameLabel ==
    Idle =>
        \A r \in Rows :
            (files[r.path].lines = 1 /\ files[r.path].lead \in {"#", "["})
                => r.text = LabelOfFileName(r.path)

\* C19: every display label is at most 50 characters long, the ellipsis
\* counted.
C19_LabelAtMost50 == \A r \in Rows : Len(r.text) <= 50

\* The colour of a priority.
PriorityColour(priority) ==
    IF priority = "p2" THEN "orange"
    ELSE IF priority = "p3" THEN "blue"
    ELSE "red"

\* The due day is more than 365 calendar days after today; the sentinel
\* instant counts as such.
FarFutureDue(ts) ==
    ts = SentinelInstant \/ DayOf(ts) - DayOf(now) > 365

\* C20: whatever rendered it (full scan, search, incremental update), the
\* row of an item shows the completed icon when the item is completed,
\* otherwise the far-future icon when its due day is more than 365
\* calendar days after today or its instant is the sentinel, otherwise the
\* colour of its priority.
C20_IconSelection ==
    \A r \in Rows :
        /\ \E tf \in Items : tf.filePath = r.path /\ tf.timestamp = r.due
        /\ \A tf \in Items :
              (tf.filePath = r.path /\ tf.timestamp = r.due) =>
                  r.icon = IF tf.isCompleted THEN "check"
                           ELSE IF FarFutureDue(tf.timestamp) THEN "white"
                           ELSE PriorityColour(tf.priority)

C20_Witness ==
    /\ \E r \in Rows, tf \in Items :
          /\ tf.filePath = r.path
          /\ tf.isCompleted
          /\ tf.timestamp = SentinelInstant
          /\ r.icon = "check"
    /\ \E r \in Rows, tf \in Items :
          /\ tf.filePath = r.path
          /\ ~tf.isCompleted
          /\ DayOf(tf.timestamp) - DayOf(now) > 365
          /\ r.icon = "white"

\* C21: in every reachable state the item index holds at most one item per
\* file path.
C21_OneItemPerPath ==
    \A i, j \in 1..Len(taskFileData) :
        i # j => taskFileData[i].filePath # taskFileData[j].filePath

\* The commands that start a full rescan, and the temporal flag each of
\* them hands to it.
RescanCommands ==
    {"refresh", "refreshDueSoon", "refreshOverdue", "filterByPriority",
     "setCompletionFilter", "clearFilters"}

FlagOfCommand(cmd) ==
    IF cmd = "refreshDueSoon" THEN "Due Soon"
    ELSE IF cmd = "refreshOverdue" THEN "Overdue"
    ELSE "All"

\* The display list of one complete walk rendered with the temporal flag
\* of a request.
singleScanDisplay(mode) ==
    renderAll(sortByTimestamp(
                  filterByPriorityTag(filterByTime(walk(listing), mode, now))),
              now)

\* C22: once every rescan requested has completed, the newest request
\* being the last thing asked of the engine, the index and the display list
\* are those of one single walk rendered with the newest request's
\* parameters: no item twice, none missing, no older request's list.
C22_SingleScanResult ==
    (Idle /\ lastCommand \in RescanCommands) =>
        /\ Len(taskFileData) = Len(walk(listing))
        /\ Items = {walk(listing)[k] : k \in 1..Len(walk(listing))}
        /\ taskFiles = singleScanDisplay(FlagOfCommand(lastCommand))

\* C23: from the start of a full rescan until it has swapped its result in
\* the scanning flag is set: while any rescan is in flight the host is
\* given the placeholder row alone, never rows of the display list.
C23_FlagCoversScan ==
    ScanInFlight => isScanning /\ getChildren = <<ScanningIndicator>>

\* The oldest full rescan in flight; its task keeps the index that was
\* complete when it was requested.
OldestScan ==
    tasks[CHOOSE i \in 1..Len(tasks) :
              /\ tasks[i].kind = "scan"
              /\ \A j \in 1..(i - 1) : tasks[j].kind # "scan"]

sameItems(a, b) ==
    /\ Len(a) = Len(b)
    /\ {a[k] : k \in 1..Len(a)} = {b[k] : k \in 1..Len(b)}

\* The index is a whole item set: the one the rescan in flight replaces, or
\* the one its walk builds.
WholeIndex ==
    \/ sameItems(taskFileData, OldestScan.data)
    \/ sameItems(taskFileData, walk(listing))

\* C24: an incremental update, a search or a clear-search that runs while
\* a full rescan is suspended finds in the index a whole item set, the
\* previous one or the new one, never a part of the set the walk is
\* building.
C24_NoTornIndex ==
    [][(/\ ScanInFlight
        /\ \/ lastCommand' = "clearSearch" /\ left' # left
           \/ lastCommand' = "searchTasks" /\ left' # left
           \/ lastCommand' = "updateSingleTask" /\ watch' # watch)
          => WholeIndex]_vars

\* The due instant, the priority and the completion of an indexed item are
\* those a reading of its file as it now is gives.
ReflectsFile(tf) ==
    LET f == scanFileItem(tf.filePath, files[tf.filePath])
    IN  /\ tf.timestamp = f.timestamp
        /\ tf.priority = f.priority
        /\ tf.isCompleted = f.isCompleted

\* C25: once the change notifications have stopped and every pending
\* handler has run, the last of them having updated the index, every
\* indexed item reflects the final content of its file: no handler that
\* read older content has overwritten a newer result.
C25_EventuallyConsistent ==
    (Idle /\ lastCommand = "updateSingleTask") =>
        \A tf \in Items : ReflectsFile(tf)

\* The file of a path can be read.
Readable(p) == files[p] # Unreadable

\* C26: once the handler of a change notification has finished, the index
\* holds no item for a file whose read is rejected: the failure made the
\* handler rescan, and the rescan dropped the item.
C26_FailureRescans ==
    Idle => \A tf \in Items : Readable(tf.filePath)

IndexedPaths == {tf.filePath : tf \in Items}

\* The content passes the completion mode of the Filter Selection.
InCompletionMode(content) ==
    \/ completionFilter = "all"
    \/ completionFilter = "completed" /\ "#done" \in content.tags
    \/ completionFilter = "not-completed" /\ "#done" \notin content.tags

\* C27 as stated: a completed full rescan leaves exactly one item for
\* every file that qualifies under the tag configuration, whatever the
\* Filter Selection, completion mode included.
C27_FullUnfilteredIndex ==
    (Idle /\ lastCommand \in RescanCommands) =>
        /\ Len(taskFileData) = Cardinality(IndexedPaths)
        /\ IndexedPaths = {p \in Paths : hasTaskHashtag(files[p])}

\* C27: a completed full rescan leaves exactly one item for every file
\* that qualifies under the tag configuration and passes the completion
\* mode in force when the scan ran, whatever the temporal mode, the
\* priority mode and the search text.
C27_IndexOfCompletionMode ==
    (Idle /\ lastCommand \in RescanCommands) =>
        /\ Len(taskFileData) = Cardinality(IndexedPaths)
        /\ IndexedPaths = {p \in Paths : /\ hasTaskHashtag(files[p])
                                         /\ InCompletionMode(files[p])}

\* A Due Soon rescan has completed under not-completed: an indexed item is
\* not in the list, and a completed file that carries the tag is not in
\* the index.
C27_Witness ==
    /\ Idle
    /\ lastCommand = "refreshDueSoon"
    /\ completionFilter = "not-completed"
    /\ \E tf \in Items : ~shown(tf)
    /\ \E p \in Paths : /\ hasTaskHashtag(files[p])
                        /\ "#done" \in files[p].tags
                        /\ p \notin IndexedPaths

\* The Filter Selection and the title that shows it.
FilterSelection ==
    <<currentFilter, currentPriorityFilter, completionFilter,
      currentSearchQuery, title>>

\* C28: the step that ends the handler of a file-change notification, its
\* fallback to a full rescan included, leaves the temporal mode, the
\* priority mode, the completion mode, the search text and the title as
\* they were.
C28_HandlerKeepsSelection ==
    [][(\E i \in 1..Len(watch) :
            watch[i].content # Unread /\ watch' = remove(watch, i))
          => FilterSelection' = FilterSelection]_vars

\* The items the index holds for the paths other than p.
othersOf(data, p) ==
    {data[k] : k \in {j \in 1..Len(data) : data[j].filePath # p}}

pathsOf(data) == {data[k].filePath : k \in 1..Len(data)}

\* A full rescan is requested: scanForTaskFiles empties the index.
RescanStarts ==
    /\ taskFileData' = <<>>
    /\ Len(tasks') = Len(tasks) + 1
    /\ tasks'[Len(tasks')].kind = "scan"
    /\ tasks'[Len(tasks')].phase = "readdir"

\* C29: an incremental update for path p leaves the set of indexed paths
\* and the number of items as they were and every item of another path
\* identical; no step other than the start of a full rescan takes a path
\* out of the index.
C29_UpdateTouchesOnePath ==
    [][/\ \A i \in 1..Len(watch) :
             (lastCommand' = "updateSingleTask" /\ watch' = remove(watch, i)
                 /\ watch[i].content # Unread)
             => /\ pathsOf(taskFileData') = pathsOf(taskFileData)
                /\ Len(taskFileData') = Len(taskFileData)
                /\ othersOf(taskFileData', watch[i].path)
                      = othersOf(taskFileData, watch[i].path)
       /\ ~(pathsOf(taskFileData) \subseteq pathsOf(taskFileData'))
             => RescanStarts]_vars

\* An incremental update has run under a filter that hides one of the two
\* indexed items; both are still in the index.
C29_Witness ==
    /\ lastCommand = "updateSingleTask"
    /\ Idle
    /\ Len(taskFileData) = 2
    /\ Len(taskFiles) = 1

\* The paths a walk that got its listing has to index: the readable files
\* that qualify under the tag configuration and the completion mode.
ReadableQualifying ==
    {p \in Paths : /\ Readable(p)
                   /\ hasTaskHashtag(files[p])
                   /\ InCompletionMode(files[p])}

====
